---- MODULE Spec2Model ----
(***************************************************************************)
(* PowerSplit (openconcept/components/splitter.py): an OpenMDAO explicit   *)
(* component that splits an incoming power between two outputs A and B     *)
(* under the rule 'fraction' or 'fixed', with a waste-heat output, cost,   *)
(* weight and sizing margin, and analytic partial derivatives.             *)
(*                                                                         *)
(* Numbers are exact rationals [n, d] in lowest terms with d > 0; a zero   *)
(* denominator stands for the non-finite results of a division by zero     *)
(* (n = 1: inf, n = -1: -inf, n = 0: nan).  Floating-point rounding is not *)
(* modelled.  Arrays are functions on 0..len-1, as numpy indexes them.     *)
(***************************************************************************)
EXTENDS Integers, FiniteSets, Sequences, TLC

VARIABLES
    options,      \* self.options: rule, efficiency, num_nodes, weight/cost factors
    phase,        \* "constructed", "ready" (setup returned) or "failed" (setup raised)
    error,        \* the exception setup raised, or "none"
    var_in,       \* the registered inputs: name -> shape
    var_out,      \* the registered outputs: name -> shape
    declared,     \* the declared partials: <<of, wrt>> -> set of <<row, col>>
    inputs,       \* the input vector the host has bound
    outputs,      \* the output vector (persists between compute calls)
    J,            \* the Jacobian entries (persist between compute_partials calls)
    accessed,     \* [reads: input names read, writes: Jacobian keys written] by calls
    last_in,      \* {inputs of the latest compute call}, {} before the first
    lin_in,       \* {inputs of the latest compute_partials call}, {} before the first
    pending       \* the calls the host has not yet made at the current point

vars == <<options, phase, error, var_in, var_out, declared, inputs, outputs, J,
          accessed, last_in, lin_in, pending>>

----------------------------------------------------------------------------
(* Bounds *)

MaxPower == 2

----------------------------------------------------------------------------
(* Exact rational arithmetic standing for Python/numpy float arithmetic *)

Abs(a) == IF a < 0 THEN -a ELSE a

Sign(a) == IF a < 0 THEN -1 ELSE IF a > 0 THEN 1 ELSE 0

RECURSIVE GCD(_, _)
GCD(a, b) == IF b = 0 THEN a ELSE GCD(b, a % b)

Rat(n, d) ==
    IF d = 0 THEN [n |-> Sign(n), d |-> 0]
    ELSE LET g == GCD(Abs(n), Abs(d))
             s == Sign(d)
         IN  [n |-> (s * n) \div g, d |-> (s * d) \div g]

Num(k) == [n |-> k, d |-> 1]

Zero == Num(0)

One == Num(1)

Mul(a, b) == Rat(a.n * b.n, a.d * b.d)

Add(a, b) == Rat(a.n * b.d + b.n * a.d, a.d * b.d)

Neg(a) == [n |-> -(a.n), d |-> a.d]

Sub(a, b) == Add(a, Neg(b))

Div(a, b) ==
    IF b.n = 0 THEN [n |-> Sign(a.n), d |-> 0]
    ELSE Rat(a.n * b.d * Sign(b.n), a.d * Abs(b.n))

Lt(a, b) == a.n * b.d < b.n * a.d

Ge(a, b) == a.n * b.d >= b.n * a.d

----------------------------------------------------------------------------
(* numpy helpers *)

range(n) == [k \in 1..n |-> k - 1]

Idx(n) == 0..(n - 1)

zeros(n) == [i \in Idx(n) |-> Zero]

ones(n) == [i \in Idx(n) |-> One]

\* a scalar times / plus an array, elementwise
Scale(v, c) == [i \in DOMAIN v |-> Mul(v[i], c)]

\* the (row, col) pairs of declare_partials(rows=..., cols=...)
Coo(rows, cols) == {<<rows[k], cols[k]>> : k \in DOMAIN rows}

\* the pairs of declare_partials without rows/cols: a dense block
Dense(nrow, ncol) == Idx(nrow) \X Idx(ncol)

----------------------------------------------------------------------------
(* Option values explored: the defaults of initialize and the values of    *)
(* the demonstration at the end of the file.                               *)

RuleVals == {"fraction", "fixed", "invalid"}

NumNodesVals == {1, 2}

\* the technology factors: initialize's defaults, and the demonstration's
TechVals ==
    { [efficiency |-> One, weight_inc |-> Zero, weight_base |-> Zero,
       cost_inc |-> Zero, cost_base |-> Zero],
      [efficiency |-> Rat(49, 50), weight_inc |-> Rat(1, 5), weight_base |-> Num(20),
       cost_inc |-> Rat(1, 20), cost_base |-> Num(10000)] }

initialize(rule, num_nodes, tech) ==
    [num_nodes |-> num_nodes, rule |-> rule, efficiency |-> tech.efficiency,
     weight_inc |-> tech.weight_inc, weight_base |-> tech.weight_base,
     cost_inc |-> tech.cost_inc, cost_base |-> tech.cost_base]

(* Input values the host binds *)

PowerVals == {Num(k) : k \in 0..MaxPower}

FractionVals == {Rat(2 * k - 1, 2) : k \in 0..MaxPower}

RatingVals == {Zero, Num(MaxPower)}

ControlName(rule) ==
    IF rule = "fraction" THEN "power_split_fraction" ELSE "power_split_amount"

ControlVals(rule) == IF rule = "fraction" THEN FractionVals ELSE PowerVals

InputVectors(rule, nn) ==
    { (ControlName(rule) :> c) @@ [power_in |-> p, power_rating |-> r] :
        p \in [Idx(nn) -> PowerVals],
        c \in [Idx(nn) -> ControlVals(rule)],
        r \in [Idx(1) -> RatingVals] }

----------------------------------------------------------------------------
(* setup: registers inputs, outputs and partials; raises on an unknown rule *)

NoEntries == [x \in {} |-> {}]

declare_partials(ofs, wrts, pattern) == [key \in ofs \X wrts |-> pattern]

\* setup without the final else: an unknown rule registers no control input
\* and no split partials, and raises nothing
setup_unchecked(opts) ==
    LET nn == opts.num_nodes
        diag == Coo(range(nn), range(nn))
    IN  [error |-> "none",
         var_in |-> [power_in |-> nn, power_rating |-> 1],
         var_out |-> [power_out_A |-> nn, power_out_B |-> nn, heat_out |-> nn,
                      component_cost |-> 1, component_weight |-> 1,
                      component_sizing_margin |-> nn],
         declared |-> declare_partials({"heat_out"}, {"power_in"}, diag)
                @@ declare_partials({"component_cost"}, {"power_rating"}, Dense(1, 1))
                @@ declare_partials({"component_weight"}, {"power_rating"}, Dense(1, 1))
                @@ declare_partials({"component_sizing_margin"}, {"power_in"}, diag)
                @@ declare_partials({"component_sizing_margin"}, {"power_rating"},
                                    Dense(nn, 1))]

setup(opts) ==
    LET nn == opts.num_nodes
        rule == opts.rule
        in0 == [power_in |-> nn, power_rating |-> 1]
        in1 == IF rule = "fraction" THEN ("power_split_fraction" :> nn) @@ in0
               ELSE IF rule = "fixed" THEN ("power_split_amount" :> nn) @@ in0
               ELSE in0
        out1 == [power_out_A |-> nn, power_out_B |-> nn, heat_out |-> nn,
                 component_cost |-> 1, component_weight |-> 1,
                 component_sizing_margin |-> nn]
        diag == Coo(range(nn), range(nn))
        split == IF rule = "fraction"
                 THEN declare_partials({"power_out_A", "power_out_B"},
                                       {"power_in", "power_split_fraction"}, diag)
                 ELSE IF rule = "fixed"
                 THEN declare_partials({"power_out_A", "power_out_B"},
                                       {"power_in", "power_split_amount"}, diag)
                 ELSE NoEntries
        rest == declare_partials({"heat_out"}, {"power_in"}, diag)
                @@ declare_partials({"component_cost"}, {"power_rating"}, Dense(1, 1))
                @@ declare_partials({"component_weight"}, {"power_rating"}, Dense(1, 1))
                @@ declare_partials({"component_sizing_margin"}, {"power_in"}, diag)
                @@ declare_partials({"component_sizing_margin"}, {"power_rating"},
                                    Dense(nn, 1))
    IN  IF rule \notin {"fraction", "fixed"}
        THEN [error |-> "ValueError", var_in |-> in0, var_out |-> NoEntries,
              declared |-> NoEntries]
        ELSE [error |-> "none", var_in |-> in1, var_out |-> out1,
              declared |-> split @@ rest]

\* the Jacobian after setup: the declared constant values, zeros elsewhere
InitialJ(opts, decl) ==
    LET nn == opts.num_nodes
        vals == (<<"heat_out", "power_in">> :> Scale(ones(nn), Sub(One, opts.efficiency)))
                @@ (<<"component_cost", "power_rating">> :> Scale(ones(1), opts.cost_inc))
                @@ (<<"component_weight", "power_rating">> :> Scale(ones(1), opts.weight_inc))
    IN  [key \in DOMAIN decl |->
            IF key \in DOMAIN vals THEN vals[key]
            ELSE zeros(Cardinality(decl[key]))]

\* the output vector after setup: every output at the framework default 1.0
InitialOutputs(vout) == [name \in DOMAIN vout |-> ones(vout[name])]

----------------------------------------------------------------------------
(* compute *)

compute_not_enough_idx(inp) ==
    {i \in Idx(options.num_nodes) :
        Lt(inp["power_in"][i], inp["power_split_amount"][i])}

\* np.where with > in place of >=
compute_enough_idx_strict(inp) ==
    {i \in Idx(options.num_nodes) :
        Lt(inp["power_split_amount"][i], inp["power_in"][i])}

compute_enough_idx(inp) ==
    {i \in Idx(options.num_nodes) :
        Ge(inp["power_in"][i], inp["power_split_amount"][i])}

po_A(inp) ==
    LET eta == options.efficiency
    IN  [i \in Idx(options.num_nodes) |->
            IF i \in compute_enough_idx(inp) THEN Mul(inp["power_split_amount"][i], eta)
            ELSE IF i \in compute_not_enough_idx(inp) THEN Mul(inp["power_in"][i], eta)
            ELSE zeros(options.num_nodes)[i]]

\* power_out_B without the saturation: the remainder also where it is negative
po_B_unclamped(inp) ==
    [i \in Idx(options.num_nodes) |->
        Mul(Sub(inp["power_in"][i], inp["power_split_amount"][i]), options.efficiency)]

po_B(inp) ==
    LET eta == options.efficiency
    IN  [i \in Idx(options.num_nodes) |->
            IF i \in compute_enough_idx(inp)
            THEN Mul(Sub(inp["power_in"][i], inp["power_split_amount"][i]), eta)
            ELSE IF i \in compute_not_enough_idx(inp) THEN zeros(options.num_nodes)[i]
            ELSE zeros(options.num_nodes)[i]]

\* power_out_A with the fraction clipped to [0, 1]
fraction_out_A_clamped(inp) ==
    [i \in Idx(options.num_nodes) |->
        LET f == inp["power_split_fraction"][i]
            c == IF Lt(f, Zero) THEN Zero ELSE IF Lt(One, f) THEN One ELSE f
        IN  Mul(Mul(inp["power_in"][i], c), options.efficiency)]

fraction_out_A(inp) ==
    [i \in Idx(options.num_nodes) |->
        Mul(Mul(inp["power_in"][i], inp["power_split_fraction"][i]), options.efficiency)]

fraction_out_B(inp) ==
    [i \in Idx(options.num_nodes) |->
        Mul(Mul(inp["power_in"][i], Sub(One, inp["power_split_fraction"][i])),
            options.efficiency)]

heat_out(inp) == Scale(inp["power_in"], Sub(One, options.efficiency))

\* component_cost priced on the power flowing instead of the rating
component_cost_of_power_in(inp) ==
    [i \in Idx(1) |-> Add(Mul(inp["power_in"][i], options.cost_inc), options.cost_base)]

component_cost(inp) ==
    [i \in Idx(1) |-> Add(Mul(inp["power_rating"][i], options.cost_inc), options.cost_base)]

component_weight(inp) ==
    [i \in Idx(1) |->
        Add(Mul(inp["power_rating"][i], options.weight_inc), options.weight_base)]

\* component_sizing_margin from the first node's power at every node
component_sizing_margin_first_node(inp) ==
    [i \in Idx(options.num_nodes) |-> Div(inp["power_in"][0], inp["power_rating"][0])]

component_sizing_margin(inp) ==
    [i \in Idx(options.num_nodes) |-> Div(inp["power_in"][i], inp["power_rating"][0])]

\* compute filling power_out_B in place: the starved nodes keep what the
\* array held
compute_in_place(inp, out) ==
    LET rule == options.rule
        split == IF rule = "fraction"
                 THEN [power_out_A |-> fraction_out_A(inp),
                       power_out_B |-> fraction_out_B(inp)]
                 ELSE IF rule = "fixed"
                 THEN [power_out_A |-> po_A(inp),
                       power_out_B |->
                           [i \in Idx(options.num_nodes) |->
                               IF i \in compute_enough_idx(inp) THEN po_B(inp)[i]
                               ELSE out["power_out_B"][i]]]
                 ELSE NoEntries
        common == [heat_out |-> heat_out(inp),
                   component_cost |-> component_cost(inp),
                   component_weight |-> component_weight(inp),
                   component_sizing_margin |-> component_sizing_margin(inp)]
    IN  (split @@ common) @@ out

\* the output vector after compute(inputs, outputs): assigned names replace
\* the old arrays, every other name keeps what it held
compute(inp, out) ==
    LET rule == options.rule
        split == IF rule = "fraction"
                 THEN [power_out_A |-> fraction_out_A(inp),
                       power_out_B |-> fraction_out_B(inp)]
                 ELSE IF rule = "fixed"
                 THEN [power_out_A |-> po_A(inp), power_out_B |-> po_B(inp)]
                 ELSE NoEntries
        common == [heat_out |-> heat_out(inp),
                   component_cost |-> component_cost(inp),
                   component_weight |-> component_weight(inp),
                   component_sizing_margin |-> component_sizing_margin(inp)]
    IN  (split @@ common) @@ out

\* the input names compute reads
compute_reads ==
    {"power_in", "power_rating"}
    \cup (IF options.rule = "fraction" THEN {"power_split_fraction"}
          ELSE IF options.rule = "fixed" THEN {"power_split_amount"}
          ELSE {})

----------------------------------------------------------------------------
(* compute_partials *)

partials_not_enough_idx(inp) ==
    {i \in Idx(options.num_nodes) :
        Lt(inp["power_in"][i], inp["power_split_amount"][i])}

\* np.where with > in place of >=
partials_enough_idx_strict(inp) ==
    {i \in Idx(options.num_nodes) :
        Lt(inp["power_split_amount"][i], inp["power_in"][i])}

partials_enough_idx(inp) ==
    {i \in Idx(options.num_nodes) :
        Ge(inp["power_in"][i], inp["power_split_amount"][i])}

\* an array of zeros, then the not-enough entries, then the enough entries
Piecewise(inp, not_enough_val, enough_val) ==
    [i \in Idx(options.num_nodes) |->
        IF i \in partials_enough_idx(inp) THEN enough_val
        ELSE IF i \in partials_not_enough_idx(inp) THEN not_enough_val
        ELSE zeros(options.num_nodes)[i]]

Jpo_A_pi(inp) == Piecewise(inp, options.efficiency, Zero)

Jpo_A_ps(inp) == Piecewise(inp, Zero, options.efficiency)

Jpo_B_pi(inp) == Piecewise(inp, Zero, options.efficiency)

\* dB/dsplit with the sign lost
Jpo_B_ps_positive(inp) == Piecewise(inp, Zero, options.efficiency)

Jpo_B_ps(inp) == Piecewise(inp, Zero, Neg(options.efficiency))

\* compute_partials whose fixed branch assigns dA/dsplit under the fraction
\* rule's key
partials_written_wrong_key(inp) ==
    LET rule == options.rule
        eta == options.efficiency
        nn == options.num_nodes
        split ==
            IF rule = "fraction"
            THEN (<<"power_out_A", "power_in">> :> Scale(inp["power_split_fraction"], eta))
              @@ (<<"power_out_A", "power_split_fraction">> :> Scale(inp["power_in"], eta))
              @@ (<<"power_out_B", "power_in">> :>
                    [i \in Idx(nn) |-> Mul(Sub(One, inp["power_split_fraction"][i]), eta)])
              @@ (<<"power_out_B", "power_split_fraction">> :>
                    [i \in Idx(nn) |-> Mul(Neg(inp["power_in"][i]), eta)])
            ELSE IF rule = "fixed"
            THEN (<<"power_out_A", "power_in">> :> Jpo_A_pi(inp))
              @@ (<<"power_out_A", "power_split_fraction">> :> Jpo_A_ps(inp))
              @@ (<<"power_out_B", "power_in">> :> Jpo_B_pi(inp))
              @@ (<<"power_out_B", "power_split_amount">> :> Jpo_B_ps(inp))
            ELSE NoEntries
        margin ==
            (<<"component_sizing_margin", "power_in">> :>
                [i \in Idx(nn) |-> Div(One, inp["power_rating"][0])])
            @@ (<<"component_sizing_margin", "power_rating">> :>
                [i \in Idx(nn) |->
                    Div(Neg(inp["power_in"][i]),
                        Mul(inp["power_rating"][0], inp["power_rating"][0]))])
    IN  split @@ margin

\* the Jacobian entries one compute_partials call assigns
partials_written(inp) ==
    LET rule == options.rule
        eta == options.efficiency
        nn == options.num_nodes
        split ==
            IF rule = "fraction"
            THEN (<<"power_out_A", "power_in">> :> Scale(inp["power_split_fraction"], eta))
              @@ (<<"power_out_A", "power_split_fraction">> :> Scale(inp["power_in"], eta))
              @@ (<<"power_out_B", "power_in">> :>
                    [i \in Idx(nn) |-> Mul(Sub(One, inp["power_split_fraction"][i]), eta)])
              @@ (<<"power_out_B", "power_split_fraction">> :>
                    [i \in Idx(nn) |-> Mul(Neg(inp["power_in"][i]), eta)])
            ELSE IF rule = "fixed"
            THEN (<<"power_out_A", "power_in">> :> Jpo_A_pi(inp))
              @@ (<<"power_out_A", "power_split_amount">> :> Jpo_A_ps(inp))
              @@ (<<"power_out_B", "power_in">> :> Jpo_B_pi(inp))
              @@ (<<"power_out_B", "power_split_amount">> :> Jpo_B_ps(inp))
            ELSE NoEntries
        margin ==
            (<<"component_sizing_margin", "power_in">> :>
                [i \in Idx(nn) |-> Div(One, inp["power_rating"][0])])
            @@ (<<"component_sizing_margin", "power_rating">> :>
                [i \in Idx(nn) |->
                    Div(Neg(inp["power_in"][i]),
                        Mul(inp["power_rating"][0], inp["power_rating"][0]))])
    IN  split @@ margin

\* the Jacobian after compute_partials(inputs, J)
compute_partials(inp, jac) == partials_written(inp) @@ jac

\* the input names compute_partials reads
partials_reads ==
    {"power_in", "power_rating"}
    \cup (IF options.rule = "fraction" THEN {"power_split_fraction"}
          ELSE IF options.rule = "fixed" THEN {"power_split_amount"}
          ELSE {})

----------------------------------------------------------------------------
(* The component's life in the host: construction, setup, then evaluations *)
(* and linearizations at the points the host binds.                        *)

Calls == {"compute", "compute_partials"}

Init ==
    /\ options \in {initialize(rule, nn, tech) :
                       rule \in RuleVals, nn \in NumNodesVals, tech \in TechVals}
    /\ phase = "constructed"
    /\ error = "none"
    /\ var_in = NoEntries
    /\ var_out = NoEntries
    /\ declared = NoEntries
    /\ inputs = NoEntries
    /\ outputs = NoEntries
    /\ J = NoEntries
    /\ accessed = [reads |-> {}, writes |-> {}]
    /\ last_in = {}
    /\ lin_in = {}
    /\ pending = {}

\* prob.setup(): the component's setup runs; the host then binds every input
Setup ==
    /\ phase = "constructed"
    /\ LET r == setup(options)
       IN  /\ error' = r.error
           /\ var_in' = r.var_in
           /\ var_out' = r.var_out
           /\ declared' = r.declared
           /\ IF r.error = "none"
              THEN /\ phase' = "ready"
                   /\ inputs' \in InputVectors(options.rule, options.num_nodes)
                   /\ outputs' = InitialOutputs(r.var_out)
                   /\ J' = InitialJ(options, r.declared)
                   /\ pending' = Calls
              ELSE /\ phase' = "failed"
                   /\ UNCHANGED <<inputs, outputs, J, pending>>
    /\ UNCHANGED <<options, accessed, last_in, lin_in>>

\* the host moves one entry of one input to a new value
SetInput ==
    /\ phase = "ready"
    /\ pending = {}
    /\ \E name \in DOMAIN inputs :
       \E i \in DOMAIN inputs[name] :
       \E v \in (IF name = ControlName(options.rule) THEN ControlVals(options.rule)
                 ELSE IF name = "power_rating" THEN RatingVals ELSE PowerVals) :
          /\ v # inputs[name][i]
          /\ inputs' = [inputs EXCEPT ![name][i] = v]
    /\ pending' = Calls
    /\ UNCHANGED <<options, phase, error, var_in, var_out, declared, outputs, J,
                   accessed, last_in, lin_in>>

Compute ==
    /\ phase = "ready"
    /\ outputs' = compute(inputs, outputs)
    /\ accessed' = [accessed EXCEPT !.reads = @ \cup compute_reads]
    /\ last_in' = {inputs}
    /\ pending' = pending \ {"compute"}
    /\ UNCHANGED <<options, phase, error, var_in, var_out, declared, inputs, J, lin_in>>

ComputePartials ==
    /\ phase = "ready"
    /\ J' = compute_partials(inputs, J)
    /\ accessed' = [reads |-> accessed.reads \cup partials_reads,
                    writes |-> accessed.writes \cup DOMAIN partials_written(inputs)]
    /\ lin_in' = {inputs}
    /\ pending' = pending \ {"compute_partials"}
    /\ UNCHANGED <<options, phase, error, var_in, var_out, declared, inputs, outputs,
                   last_in>>

Next == Setup \/ SetInput \/ Compute \/ ComputePartials

Spec == Init /\ [][Next]_vars

----------------------------------------------------------------------------
(* Vocabulary of the properties *)

Ready == phase = "ready"

Rule == options.rule

Eta == options.efficiency

Nodes == Idx(options.num_nodes)

\* the outputs are those of a compute call at the bound inputs
Evaluated == Ready /\ last_in = {inputs}

\* the Jacobian is that of a compute_partials call at the bound inputs
Linearized == Ready /\ lin_in = {inputs}

\* the point of the latest compute / compute_partials call
LastPoint == CHOOSE x \in last_in : TRUE

LinPoint == CHOOSE x \in lin_in : TRUE

\* equality of two rationals as fractions, without the model's arithmetic
SameValue(a, b) == a.d # 0 /\ b.d # 0 /\ a.n * b.d = b.n * a.d

\* a + b + c = t
SumsTo(a, b, c, t) ==
    /\ a.d # 0 /\ b.d # 0 /\ c.d # 0 /\ t.d # 0
    /\ (a.n * b.d * c.d + b.n * a.d * c.d + c.n * a.d * b.d) * t.d
           = t.n * a.d * b.d * c.d

\* a - b = c * h
DiffIs(a, b, c, h) ==
    /\ a.d # 0 /\ b.d # 0 /\ c.d # 0 /\ h.d # 0
    /\ (a.n * b.d - b.n * a.d) * c.d * h.d = c.n * h.n * a.d * b.d

----------------------------------------------------------------------------
(* C1: after compute, under either rule, for every efficiency and every    *)
(* input (power_in below, at and above power_split_amount included),       *)
(* power_out_A[i] + power_out_B[i] + heat_out[i] = power_in[i] at every    *)
(* node i, and heat_out[i] = power_in[i] * (1 - eta).                      *)
C1_EnergyConservation ==
    Evaluated =>
        \A i \in Nodes :
            /\ SumsTo(outputs["power_out_A"][i], outputs["power_out_B"][i],
                      outputs["heat_out"][i], inputs["power_in"][i])
            /\ SameValue(outputs["heat_out"][i],
                         [n |-> inputs["power_in"][i].n * (Eta.d - Eta.n), d |-> Eta.d])

C1_Witness ==
    /\ Evaluated /\ Rule = "fixed" /\ options.num_nodes = 2 /\ Eta # One
    /\ inputs["power_in"][0] = inputs["power_split_amount"][0]
    /\ inputs["power_in"][0] # Zero
    /\ Lt(inputs["power_in"][1], inputs["power_split_amount"][1])
    /\ inputs["power_in"][1] # Zero

(* C2: under the fixed rule, per node i: power_in[i] < power_split_amount[i] *)
(* gives power_out_A[i] = power_in[i]*eta and power_out_B[i] = 0; otherwise, *)
(* equality included, power_out_A[i] = power_split_amount[i]*eta and         *)
(* power_out_B[i] = (power_in[i] - power_split_amount[i])*eta.  Every node   *)
(* is in exactly one of the two index sets compute builds, and no error is   *)
(* raised.                                                                   *)
C2_FixedRule ==
    (Evaluated /\ Rule = "fixed") =>
        /\ error = "none"
        /\ compute_not_enough_idx(inputs) \cap compute_enough_idx(inputs) = {}
        /\ compute_not_enough_idx(inputs) \cup compute_enough_idx(inputs) = Nodes
        /\ \A i \in Nodes :
            LET pin == inputs["power_in"][i].n
                amt == inputs["power_split_amount"][i].n
                A == outputs["power_out_A"][i]
                B == outputs["power_out_B"][i]
            IN  IF pin < amt
                THEN /\ SameValue(A, [n |-> pin * Eta.n, d |-> Eta.d])
                     /\ SameValue(B, [n |-> 0, d |-> 1])
                     /\ i \in compute_not_enough_idx(inputs)
                ELSE /\ SameValue(A, [n |-> amt * Eta.n, d |-> Eta.d])
                     /\ SameValue(B, [n |-> (pin - amt) * Eta.n, d |-> Eta.d])
                     /\ i \in compute_enough_idx(inputs)

C2_Witness ==
    /\ Evaluated /\ Rule = "fixed" /\ options.num_nodes = 2 /\ Eta # One
    /\ inputs["power_in"][0] = inputs["power_split_amount"][0]
    /\ inputs["power_in"][0] = Num(1)
    /\ inputs["power_in"][1] = Num(1)
    /\ inputs["power_split_amount"][1] = Num(2)
    /\ outputs["power_out_B"][0] = Zero
    /\ outputs["power_out_A"][1] = Eta

(* C3: under the fraction rule, for every node i and every input,          *)
(* power_out_A[i] = power_in[i]*power_split_fraction[i]*eta and            *)
(* power_out_B[i] = power_in[i]*(1 - power_split_fraction[i])*eta, the     *)
(* fraction being used as given also outside [0, 1].                       *)
C3_FractionRule ==
    (Evaluated /\ Rule = "fraction") =>
        \A i \in Nodes :
            LET pin == inputs["power_in"][i].n
                f == inputs["power_split_fraction"][i]
            IN  /\ SameValue(outputs["power_out_A"][i],
                             [n |-> pin * f.n * Eta.n, d |-> f.d * Eta.d])
                /\ SameValue(outputs["power_out_B"][i],
                             [n |-> pin * (f.d - f.n) * Eta.n, d |-> f.d * Eta.d])

C3_Witness ==
    /\ Evaluated /\ Rule = "fraction" /\ options.num_nodes = 2 /\ Eta # One
    /\ inputs["power_in"][0] = Num(2)
    /\ inputs["power_split_fraction"][0] = Rat(3, 2)
    /\ outputs["power_out_B"][0] = Neg(Eta)
    /\ inputs["power_in"][1] = Num(1)
    /\ inputs["power_split_fraction"][1] = Rat(-1, 2)
    /\ outputs["power_out_A"][1] = Rat(-49, 100)

(* C4: for both rules, when the host steps one input (power_in or the      *)
(* control input) at node i from a point where compute and                 *)
(* compute_partials have both run, and the step keeps node i in the same   *)
(* branch of the fixed rule, the change of power_out_A[i] and of           *)
(* power_out_B[i] between the two compute calls equals the entry           *)
(* compute_partials wrote at the base point times the step (unit steps     *)
(* included).                                                              *)
SameBranch(x, y, i) ==
    Rule = "fixed" =>
        (Lt(x["power_in"][i], x["power_split_amount"][i])
            <=> Lt(y["power_in"][i], y["power_split_amount"][i]))

SteppedFrom(x, name, i) ==
    /\ x[name][i] # inputs[name][i]
    /\ \A other \in DOMAIN inputs : \A k \in DOMAIN inputs[other] :
          (other # name \/ k # i) => x[other][k] = inputs[other][k]

C4_JacobianConsistency ==
    [][(Compute /\ pending = Calls /\ last_in # {} /\ lin_in = last_in) =>
          \A name \in {"power_in", ControlName(Rule)} : \A i \in Nodes :
              (SteppedFrom(LastPoint, name, i) /\ SameBranch(LastPoint, inputs, i)) =>
                  LET h == [n |-> inputs[name][i].n * LastPoint[name][i].d
                                    - LastPoint[name][i].n * inputs[name][i].d,
                            d |-> inputs[name][i].d * LastPoint[name][i].d]
                  IN  /\ DiffIs(outputs'["power_out_A"][i], outputs["power_out_A"][i],
                                J[<<"power_out_A", name>>][i], h)
                      /\ DiffIs(outputs'["power_out_B"][i], outputs["power_out_B"][i],
                                J[<<"power_out_B", name>>][i], h)
      ]_vars

\* the second compute has run after a unit step of power_split_amount at
\* node 0 inside the not-enough branch; the Jacobian is still the base point's
C4_Witness ==
    /\ Evaluated /\ Rule = "fixed" /\ Eta # One /\ pending = {"compute_partials"}
    /\ lin_in # {} /\ lin_in # last_in
    /\ LinPoint["power_in"][0] = Zero
    /\ LinPoint["power_split_amount"][0] = Num(1)
    /\ inputs["power_in"][0] = Zero
    /\ inputs["power_split_amount"][0] = Num(2)

(* C5: under the fixed rule compute_partials writes, per node i, the       *)
(* partials (dA/dpower_in, dA/dsplit, dB/dpower_in, dB/dsplit) =           *)
(* (eta, 0, 0, 0) when power_in[i] < power_split_amount[i] and             *)
(* (0, eta, eta, -eta) otherwise, equality included; the index sets        *)
(* compute_partials builds are those compute builds for the same input.    *)
C5_FixedPartials ==
    (Linearized /\ Rule = "fixed") =>
        /\ partials_not_enough_idx(inputs) = compute_not_enough_idx(inputs)
        /\ partials_enough_idx(inputs) = compute_enough_idx(inputs)
        /\ \A i \in Nodes :
            LET four == << J[<<"power_out_A", "power_in">>][i],
                           J[<<"power_out_A", "power_split_amount">>][i],
                           J[<<"power_out_B", "power_in">>][i],
                           J[<<"power_out_B", "power_split_amount">>][i] >>
                neta == [n |-> -(Eta.n), d |-> Eta.d]
                z == [n |-> 0, d |-> 1]
            IN  IF inputs["power_in"][i].n < inputs["power_split_amount"][i].n
                THEN four = <<Eta, z, z, z>>
                ELSE four = <<z, Eta, Eta, neta>>

C5_Witness ==
    /\ Linearized /\ Rule = "fixed" /\ options.num_nodes = 2 /\ Eta # One
    /\ inputs["power_in"][0] = inputs["power_split_amount"][0]
    /\ J[<<"power_out_B", "power_split_amount">>][0] = Neg(Eta)
    /\ Lt(inputs["power_in"][1], inputs["power_split_amount"][1])
    /\ J[<<"power_out_A", "power_in">>][1] = Eta

(* C6 as claimed: with a rule that is neither 'fraction' nor 'fixed' the   *)
(* component is rejected before setup is entered: no input and no output   *)
(* is ever registered.                                                     *)
C6_RejectedBeforeSetup ==
    (Rule \notin {"fraction", "fixed"}) =>
        (var_in = NoEntries /\ var_out = NoEntries)

(* C6 as amended: with a rule that is neither 'fraction' nor 'fixed' the   *)
(* construction succeeds and setup raises ValueError after registering     *)
(* power_in and power_rating and before registering any control input,     *)
(* output or partial; setup never completes, so compute and                *)
(* compute_partials never run on that instance.                            *)
C6_RejectedInSetup ==
    (Rule \notin {"fraction", "fixed"}) =>
        /\ phase \in {"constructed", "failed"}
        /\ (phase = "failed") <=> (error = "ValueError")
        /\ phase = "constructed" => var_in = NoEntries
        /\ phase = "failed" => DOMAIN var_in = {"power_in", "power_rating"}
        /\ var_out = NoEntries /\ declared = NoEntries
        /\ inputs = NoEntries /\ outputs = NoEntries /\ J = NoEntries
        /\ last_in = {} /\ lin_in = {}
        /\ accessed = [reads |-> {}, writes |-> {}]

C6_Witness ==
    /\ Rule = "invalid" /\ phase = "failed" /\ error = "ValueError"
    /\ DOMAIN var_in = {"power_in", "power_rating"}

(* C7: under both rules every compute call gives                           *)
(* component_cost = power_rating*cost_inc + cost_base and                  *)
(* component_weight = power_rating*weight_inc + weight_base, and a compute *)
(* call whose inputs differ from the previous compute call's in power_in   *)
(* or in the control input, with the same power_rating, leaves             *)
(* component_cost and component_weight as they were.                       *)
C7_CostWeightIndependence ==
    [][Compute =>
          LET r == inputs["power_rating"][0]
          IN  /\ SameValue(outputs'["component_cost"][0],
                           [n |-> r.n * options.cost_inc.n * options.cost_base.d
                                    + options.cost_base.n * options.cost_inc.d,
                            d |-> options.cost_inc.d * options.cost_base.d])
              /\ SameValue(outputs'["component_weight"][0],
                           [n |-> r.n * options.weight_inc.n * options.weight_base.d
                                    + options.weight_base.n * options.weight_inc.d,
                            d |-> options.weight_inc.d * options.weight_base.d])
              /\ (last_in # {} /\ LastPoint["power_rating"] = inputs["power_rating"]) =>
                    /\ outputs'["component_cost"] = outputs["component_cost"]
                    /\ outputs'["component_weight"] = outputs["component_weight"]
      ]_vars

\* two compute calls, the second at the bound inputs, the first at the point
\* of the last linearization: same rating, different power_in
C7_Witness ==
    /\ Evaluated /\ lin_in # {} /\ lin_in # last_in
    /\ options.cost_inc # Zero /\ options.weight_inc # Zero
    /\ inputs["power_rating"][0] # Zero
    /\ LinPoint["power_rating"] = inputs["power_rating"]
    /\ LinPoint["power_in"] # inputs["power_in"]

(* C8: over any sequence of compute and compute_partials calls, the        *)
(* output vector after a compute call and the Jacobian after a             *)
(* compute_partials call are what that call gives on a freshly set-up      *)
(* instance with the same inputs, whatever calls came before, and no step  *)
(* changes the options.                                                    *)
C8_Stateless ==
    [][/\ options' = options
       /\ Compute => outputs' = compute(inputs, InitialOutputs(var_out))
       /\ ComputePartials => J' = compute_partials(inputs, InitialJ(options, declared))
      ]_vars

\* compute has run at the bound point with the Jacobian of an earlier,
\* different point in place, under the fixed rule with starved and fed nodes
C8_Witness ==
    /\ Evaluated /\ Rule = "fixed" /\ options.num_nodes = 2
    /\ lin_in # {} /\ lin_in # last_in
    /\ Lt(inputs["power_in"][0], inputs["power_split_amount"][0])
    /\ Ge(LinPoint["power_in"][0], LinPoint["power_split_amount"][0])
    /\ LinPoint["power_in"][0] # LinPoint["power_split_amount"][0]

(* C9: once setup has completed, exactly one of power_split_fraction and   *)
(* power_split_amount is a registered input (the one of the rule), the     *)
(* partials declared for power_out_A and power_out_B are with respect to   *)
(* power_in and that control input, and the calls read only registered     *)
(* inputs and write only declared Jacobian entries, never one of the       *)
(* other control input.                                                    *)
OtherControl ==
    IF Rule = "fraction" THEN "power_split_amount" ELSE "power_split_fraction"

C9_OneControlInput ==
    Ready =>
        /\ Rule \in {"fraction", "fixed"}
        /\ DOMAIN var_in \cap {"power_split_fraction", "power_split_amount"}
               = {IF Rule = "fraction" THEN "power_split_fraction" ELSE "power_split_amount"}
        /\ \A of \in {"power_out_A", "power_out_B"} :
              {key[2] : key \in {k \in DOMAIN declared : k[1] = of}}
                  = {"power_in",
                     IF Rule = "fraction" THEN "power_split_fraction"
                     ELSE "power_split_amount"}
        /\ DOMAIN inputs = DOMAIN var_in
        /\ DOMAIN outputs = DOMAIN var_out
        /\ DOMAIN J = DOMAIN declared
        /\ accessed.reads \subseteq DOMAIN var_in
        /\ accessed.writes \subseteq DOMAIN declared
        /\ OtherControl \notin accessed.reads
        /\ \A key \in accessed.writes \cup DOMAIN J : key[2] # OtherControl

C9_Witness ==
    /\ Ready /\ Rule = "fixed" /\ pending = {}
    /\ "power_split_amount" \in accessed.reads
    /\ <<"power_out_B", "power_split_amount">> \in accessed.writes

(* C10: for both rules and num_nodes >= 2, a compute call after power_in   *)
(* or the control input changed at node j leaves power_out_A[i],           *)
(* power_out_B[i], heat_out[i] and component_sizing_margin[i] as they were *)
(* for every node i # j; the sparsity declared for every pair of a vector  *)
(* output and a vector input is exactly the diagonal, and                  *)
(* compute_partials writes one entry per node for each such pair.          *)
VectorOutputs == {name \in DOMAIN var_out : name \notin {"component_cost", "component_weight"}}

VectorInputs == DOMAIN var_in \ {"power_rating"}

C10_NodeIndependence ==
    [][/\ (Compute /\ last_in # {}) =>
            \A name \in VectorInputs : \A j \in Nodes :
                SteppedFrom(LastPoint, name, j) =>
                    \A i \in Nodes \ {j} :
                        \A out \in VectorOutputs : outputs'[out][i] = outputs[out][i]
       /\ Ready =>
            \A key \in DOMAIN declared :
                (key[1] \in VectorOutputs /\ key[2] \in VectorInputs) =>
                    /\ declared[key] = {<<k, k>> : k \in Nodes}
                    /\ DOMAIN J[key] = Nodes
      ]_vars

\* compute has run after power_in changed at node 0 only, with node 1
\* carrying power, on a two-node instance
C10_Witness ==
    /\ Evaluated /\ options.num_nodes = 2 /\ Eta # One
    /\ lin_in # {} /\ lin_in # last_in
    /\ LinPoint["power_in"][0] # inputs["power_in"][0]
    /\ inputs["power_in"][1] = Num(2)
    /\ inputs["power_rating"][0] # Zero
    /\ outputs["power_out_A"][1] # Zero
    /\ outputs["heat_out"][1] # Zero

====
